---- MODULE Spec2Model ----
(***************************************************************************)
(* PyCrafter (src/pycrafter.py): the Crafter class, which maps a build     *)
(* configuration onto PyInstaller arguments and runs the tool, and the     *)
(* PyCrafter window, which builds its own command line and runs it in a    *)
(* background thread.                                                      *)
(*                                                                         *)
(* Python strings are TLA+ strings, read a character at a time with        *)
(* SubSeq.  Paths are POSIX paths held as strings.  A Python value that    *)
(* may be None or of another type is a record [kind, s].                   *)
(***************************************************************************)
EXTENDS Integers, Sequences, FiniteSets, TLC

VARIABLES
    entry,                  \* "library": a caller uses Crafter; "gui": main() runs the window
    PYINSTALLER_AVAILABLE,  \* the module-level flag set by the import at load time
    args,                   \* the arguments of the Crafter(...) call
    crafter,                \* <<>> while no object exists, <<self>> afterwards
    pc,                     \* position of the library caller
    raised,                 \* <<>>, or <<e>>: the exception that left the call
    returned,               \* what build() returned ("" before it returns)
    files,                  \* the regular files of the file system
    dirs,                   \* the directories of the file system
    toolRuns,               \* how often PyInstaller.__main__.run was entered
    toolCmd,                \* the argument list of the last such call
    validation,             \* "none", "passed" or "failed": how _validate_inputs ended
    caught,                 \* <<>>, or <<e>>: the exception the except clause of build() caught
    form,                   \* the window's tk variables
    mainpc,                 \* "mainloop", or "showerror" while build_exe waits in a message box
    windows,                \* the dialogs and message boxes that are open
    grab,                   \* <<>>, or <<w>>: the window that holds the input grab
    threads                 \* the build threads started so far, in order

libVars == <<args, crafter, pc, raised, returned, toolRuns, toolCmd, validation, caught>>

guiVars == <<form, mainpc, windows, grab, threads>>

vars == <<entry, PYINSTALLER_AVAILABLE, files, dirs, libVars, guiVars>>

(***************************************************************************)
(* Strings                                                                 *)
(***************************************************************************)
Char(s, i) == SubSeq(s, i, i)

Contains(s, c) == \E i \in 1..Len(s) : Char(s, i) = c

Whitespace == {" ", "\t", "\n"}

RECURSIVE LStrip(_)
LStrip(s) ==
    IF Len(s) > 0 /\ Char(s, 1) \in Whitespace
    THEN LStrip(SubSeq(s, 2, Len(s)))
    ELSE s

RECURSIVE RStrip(_)
RStrip(s) ==
    IF Len(s) > 0 /\ Char(s, Len(s)) \in Whitespace
    THEN RStrip(SubSeq(s, 1, Len(s) - 1))
    ELSE s

\* str.strip()
Strip(s) == RStrip(LStrip(s))

\* index of the first / last occurrence of the character c in s, 0 if none
FirstIndex(s, c) ==
    IF Contains(s, c)
    THEN CHOOSE i \in 1..Len(s) :
            Char(s, i) = c /\ \A j \in 1..(i - 1) : Char(s, j) # c
    ELSE 0

LastIndex(s, c) ==
    IF Contains(s, c)
    THEN CHOOSE i \in 1..Len(s) :
            Char(s, i) = c /\ \A j \in (i + 1)..Len(s) : Char(s, j) # c
    ELSE 0

\* s.split(sep)[0]
SplitFirst(s, sep) ==
    IF Contains(s, sep) THEN SubSeq(s, 1, FirstIndex(s, sep) - 1) ELSE s

\* s.split(sep)
RECURSIVE Split(_, _)
Split(s, sep) ==
    IF Contains(s, sep)
    THEN <<SubSeq(s, 1, FirstIndex(s, sep) - 1)>>
            \o Split(SubSeq(s, FirstIndex(s, sep) + 1, Len(s)), sep)
    ELSE <<s>>

UpperLetters == "ABCDEFGHIJKLMNOPQRSTUVWXYZ"
LowerLetters == "abcdefghijklmnopqrstuvwxyz"

LowerChar(c) ==
    IF Contains(UpperLetters, c)
    THEN Char(LowerLetters, FirstIndex(UpperLetters, c))
    ELSE c

\* str.lower()
RECURSIVE Lower(_)
Lower(s) ==
    IF Len(s) = 0 THEN ""
    ELSE LowerChar(Char(s, 1)) \o Lower(SubSeq(s, 2, Len(s)))

(***************************************************************************)
(* Python values                                                           *)
(***************************************************************************)
PyNone == [kind |-> "none", s |-> ""]
PyStr(s) == [kind |-> "str", s |-> s]
PyInt(s) == [kind |-> "int", s |-> s]
PyPath(s) == [kind |-> "path", s |-> s]

\* bool(v): None, "" and 0 are false; a Path object is always true
Truthy(v) ==
    CASE v.kind = "none" -> FALSE
      [] v.kind = "str" -> v.s # ""
      [] v.kind = "int" -> v.s # "0"
      [] OTHER -> TRUE

\* isinstance(v, str)
IsStr(v) == v.kind = "str"

(***************************************************************************)
(* pathlib, on POSIX paths without "." or ".." components                  *)
(***************************************************************************)
Cwd == "/w"
Home == "/home/u"

\* Path(p).resolve()
Resolve(p) ==
    IF p = "" THEN Cwd
    ELSE IF Char(p, 1) = "/" THEN p
    ELSE Cwd \o "/" \o p

\* Path(p).name
PathName(p) == SubSeq(p, LastIndex(p, "/") + 1, Len(p))

\* Path(p).parent
PathParent(p) ==
    IF LastIndex(p, "/") = 0 THEN "."
    ELSE IF LastIndex(p, "/") = 1 THEN "/"
    ELSE SubSeq(p, 1, LastIndex(p, "/") - 1)

\* Path(p).suffix: from the last dot of the name, unless the dot starts or ends it
PathSuffix(p) ==
    LET name == PathName(p)
        i == LastIndex(name, ".")
    IN IF 1 < i /\ i < Len(name) THEN SubSeq(name, i, Len(name)) ELSE ""

\* Path(p).stem
PathStem(p) ==
    LET name == PathName(p)
        i == LastIndex(name, ".")
    IN IF 1 < i /\ i < Len(name) THEN SubSeq(name, 1, i - 1) ELSE name

\* Path(p).with_suffix(suffix)
WithSuffix(p, suffix) ==
    SubSeq(p, 1, Len(p) - Len(PathSuffix(p))) \o suffix

\* Path(d) / name
Join(d, name) == IF d = "/" THEN "/" \o name ELSE d \o "/" \o name

(***************************************************************************)
(* The file system: [files, dirs], with a fixed set of writable            *)
(* directories                                                             *)
(***************************************************************************)
WritableDirs == {"/w", "/w/sub", "/w/dist", "/w/build", "/w/__pycache__", "/ro/out",
                 "/tmp", "/home/u", "/home/u/.pyinstaller"}

\* Path.exists()
Exists(fs, p) == p \in fs.files \/ p \in fs.dirs

\* Path.is_file()
IsFile(fs, p) == p \in fs.files

\* os.access(p, os.W_OK)
Writable(fs, p) == Exists(fs, p) /\ p \in WritableDirs

\* p is d or lies below d
Under(p, d) ==
    p = d \/ (Len(p) > Len(d) /\ SubSeq(p, 1, Len(d)) = d /\ Char(p, Len(d) + 1) = "/")

(***************************************************************************)
(* Exceptions                                                              *)
(***************************************************************************)
Exc(type, msg) == [type |-> type, msg |-> msg]
CrafterError(msg) == Exc("CrafterError", msg)

(***************************************************************************)
(* Crafter.__init__                                                        *)
(***************************************************************************)
\* [item.strip() for item in (items or []) if item and item.strip()]
StripItems(items) ==
    LET kept == SelectSeq(items, LAMBDA item : item # "" /\ Strip(item) # "")
    IN [i \in 1..Len(kept) |-> Strip(kept[i])]

\* the attributes __init__ and _setup_logging assign
NewCrafter(a) ==
    LET script == Resolve(a.script.s)
    IN [script |-> script,
        output |-> IF Truthy(a.output) THEN Resolve(a.output.s) ELSE PathParent(script),
        icon |-> IF Truthy(a.icon) THEN PyPath(Resolve(a.icon.s)) ELSE PyNone,
        name |-> IF Truthy(a.name) THEN a.name.s ELSE PathStem(script),
        no_console |-> a.no_console,
        one_file |-> a.one_file,
        require_admin |-> a.require_admin,
        clean_build |-> a.clean_build,
        force_replace |-> a.force_replace,
        optimize |-> a.optimize,
        progress_callback |-> PyNone,
        hidden_imports |-> StripItems(a.hidden_imports),
        excluded_modules |-> StripItems(a.excluded_modules),
        data_files |-> StripItems(a.data_files),
        binary_files |-> StripItems(a.binary_files),
        extra_paths |-> StripItems(a.extra_paths),
        logger |-> "Crafter"]

\* ValidScript that compares the suffix as it is written
ValidScript_CaseSensitive(a, fs) ==
    /\ IsFile(fs, Resolve(a.script.s))
    /\ PathSuffix(a.script.s) = ".py"

\* the script names a regular file whose suffix is .py in any case
ValidScript(a, fs) ==
    /\ IsFile(fs, Resolve(a.script.s))
    /\ Lower(PathSuffix(a.script.s)) = ".py"

\* Crafter(**a): [exc |-> <<>>, obj |-> <<self>>] or [exc |-> <<e>>, obj |-> <<>>]
CrafterInit(a, fs, available) ==
    IF ~available
    THEN [exc |-> <<CrafterError("PyInstaller is not installed. Install it using: pip install pyinstaller")>>,
          obj |-> <<>>]
    ELSE IF ~Truthy(a.script) \/ ~IsStr(a.script)
    THEN [exc |-> <<CrafterError("Script path must be a non-empty string")>>, obj |-> <<>>]
    ELSE IF ~ValidScript(a, fs)
    THEN [exc |-> <<CrafterError("The provided script path must point to a valid .py file.")>>,
          obj |-> <<>>]
    ELSE [exc |-> <<>>, obj |-> <<NewCrafter(a)>>]

(***************************************************************************)
(* Crafter._validate_inputs                                                *)
(***************************************************************************)
invalid_chars == "<>:\"/\\|?*"

\* any(char in self.name for char in invalid_chars)
HasInvalidChar(name) ==
    \E i \in 1..Len(invalid_chars) : Contains(name, Char(invalid_chars, i))

\* the entries the loops of lines 232-242 raise for: those holding a ";" whose
\* part before the first ";" does not exist
MissingSource(fs, item) ==
    Contains(item, ";") /\ ~Exists(fs, Resolve(SplitFirst(item, ";")))

FirstMissing(fs, items) ==
    LET bad == {i \in 1..Len(items) : MissingSource(fs, items[i])}
    IN IF bad = {} THEN ""
       ELSE SplitFirst(items[CHOOSE i \in bad : \A j \in bad : i <= j], ";")

\* <<>> when nothing is raised, <<e>> otherwise
_validate_inputs(self, fs) ==
    IF ~Exists(fs, self.script)
    THEN <<CrafterError("Script file not found: " \o self.script)>>
    ELSE IF Truthy(self.icon) /\ ~Exists(fs, self.icon.s)
    THEN <<CrafterError("Icon file not found: " \o self.icon.s)>>
    ELSE IF ~Writable(fs, PathParent(self.output))
    THEN <<CrafterError("No write permission for output directory: " \o self.output)>>
    ELSE IF HasInvalidChar(self.name)
    THEN <<CrafterError("Executable name contains invalid characters: " \o invalid_chars)>>
    ELSE IF \E i \in 1..Len(self.data_files) : MissingSource(fs, self.data_files[i])
    THEN <<CrafterError("Data file not found: " \o FirstMissing(fs, self.data_files))>>
    ELSE IF \E i \in 1..Len(self.binary_files) : MissingSource(fs, self.binary_files[i])
    THEN <<CrafterError("Binary file not found: " \o FirstMissing(fs, self.binary_files))>>
    ELSE <<>>

(***************************************************************************)
(* Crafter._build_command                                                  *)
(***************************************************************************)
\* OptionPairs that walks the list from its end
OptionPairs_Reversed(option, items) ==
    [i \in 1..(2 * Len(items)) |->
        IF i % 2 = 1 THEN option ELSE items[Len(items) + 1 - (i \div 2)]]

\* for item in items: cmd.extend([option, item])
OptionPairs(option, items) ==
    [i \in 1..(2 * Len(items)) |-> IF i % 2 = 1 THEN option ELSE items[i \div 2]]

\* _build_command that tests no_console where it should test one_file
_build_command_WrongFlag(self, work_dir, spec_dir) ==
    <<self.script,
      "--name", self.name,
      "--distpath", self.output,
      "--workpath", work_dir,
      "--specpath", spec_dir>>
    \o (IF Truthy(self.icon) THEN <<"--icon", self.icon.s>> ELSE <<>>)
    \o (IF self.no_console THEN <<"--onefile">> ELSE <<>>)
    \o (IF self.no_console THEN <<"--noconsole">> ELSE <<>>)
    \o (IF self.require_admin THEN <<"--uac-admin">> ELSE <<>>)
    \o (IF self.optimize THEN <<"--optimize", "2">> ELSE <<>>)
    \o [i \in 1..(2 * Len(self.hidden_imports)) |->
            IF i % 2 = 1 THEN "--hidden-import" ELSE self.hidden_imports[i \div 2]]
    \o [i \in 1..(2 * Len(self.excluded_modules)) |->
            IF i % 2 = 1 THEN "--exclude-module" ELSE self.excluded_modules[i \div 2]]
    \o [i \in 1..(2 * Len(self.data_files)) |->
            IF i % 2 = 1 THEN "--add-data" ELSE self.data_files[i \div 2]]
    \o [i \in 1..(2 * Len(self.binary_files)) |->
            IF i % 2 = 1 THEN "--add-binary" ELSE self.binary_files[i \div 2]]
    \o [i \in 1..(2 * Len(self.extra_paths)) |->
            IF i % 2 = 1 THEN "--paths" ELSE self.extra_paths[i \div 2]]

_build_command(self, work_dir, spec_dir) ==
    <<self.script,
      "--name", self.name,
      "--distpath", self.output,
      "--workpath", work_dir,
      "--specpath", spec_dir>>
    \o (IF Truthy(self.icon) THEN <<"--icon", self.icon.s>> ELSE <<>>)
    \o (IF self.one_file THEN <<"--onefile">> ELSE <<>>)
    \o (IF self.no_console THEN <<"--noconsole">> ELSE <<>>)
    \o (IF self.require_admin THEN <<"--uac-admin">> ELSE <<>>)
    \o (IF self.optimize THEN <<"--optimize", "2">> ELSE <<>>)
    \o OptionPairs("--hidden-import", self.hidden_imports)
    \o OptionPairs("--exclude-module", self.excluded_modules)
    \o OptionPairs("--add-data", self.data_files)
    \o OptionPairs("--add-binary", self.binary_files)
    \o OptionPairs("--paths", self.extra_paths)

\* tempfile.mkdtemp(prefix=...): a directory that did not exist, under /tmp
TempSuffixes == {"a1", "b2"}

TempDir(prefix, suffix) == "/tmp/" \o prefix \o suffix

(***************************************************************************)
(* File-system operations used by build()                                  *)
(***************************************************************************)
\* Path.unlink(): [exc, fs]
Unlink(fs, p) ==
    IF p \in fs.files /\ Writable(fs, PathParent(p))
    THEN [exc |-> <<>>, fs |-> [fs EXCEPT !.files = @ \ {p}]]
    ELSE IF p \in fs.dirs
    THEN [exc |-> <<Exc("IsADirectoryError", "[Errno 21] Is a directory: '" \o p \o "'")>>,
          fs |-> fs]
    ELSE IF ~Exists(fs, p)
    THEN [exc |-> <<Exc("FileNotFoundError", "[Errno 2] No such file or directory: '" \o p \o "'")>>,
          fs |-> fs]
    ELSE [exc |-> <<Exc("PermissionError", "[Errno 13] Permission denied: '" \o p \o "'")>>,
          fs |-> fs]

\* shutil.rmtree(d, ignore_errors=True)
RmTree(fs, d) ==
    IF d \in fs.dirs /\ Writable(fs, PathParent(d))
    THEN [files |-> {f \in fs.files : ~Under(f, d)},
          dirs |-> {f \in fs.dirs : ~Under(f, d)}]
    ELSE fs

\* the proper ancestors of p, and p
RECURSIVE Lineage(_)
Lineage(p) == IF p = "/" \/ p = "." THEN {p} ELSE {p} \cup Lineage(PathParent(p))

\* Path.mkdir(parents=True, exist_ok=True): [exc, fs]
MkdirP(fs, p) ==
    LET there == {q \in Lineage(p) : Exists(fs, q)}
        near == CHOOSE q \in there : \A r \in there : Len(r) <= Len(q)
    IN IF p \in fs.dirs
       THEN [exc |-> <<>>, fs |-> fs]
       ELSE IF p \in fs.files
       THEN [exc |-> <<Exc("FileExistsError", "[Errno 17] File exists: '" \o p \o "'")>>,
             fs |-> fs]
       ELSE IF near \in fs.files
       THEN [exc |-> <<Exc("NotADirectoryError", "[Errno 20] Not a directory: '" \o p \o "'")>>,
             fs |-> fs]
       ELSE IF ~Writable(fs, near)
       THEN [exc |-> <<Exc("PermissionError", "[Errno 13] Permission denied: '" \o p \o "'")>>,
             fs |-> fs]
       ELSE [exc |-> <<>>,
             fs |-> [fs EXCEPT !.dirs = @ \cup {q \in Lineage(p) : ~Exists(fs, q)}]]

(***************************************************************************)
(* Crafter._clean_temp_files                                               *)
(***************************************************************************)
\* the try block; its except clause swallows what unlink raises and skips the rest
_clean_temp_files(self, fs) ==
    LET spec_file == WithSuffix(self.script, ".spec")
        u == IF Exists(fs, spec_file) THEN Unlink(fs, spec_file) ELSE [exc |-> <<>>, fs |-> fs]
        parent == PathParent(self.script)
    IN IF u.exc # <<>> THEN u.fs
       ELSE RmTree(RmTree(RmTree(u.fs, Join(parent, "build")),
                          Join(parent, "__pycache__")),
                   Join(Home, ".pyinstaller"))

(***************************************************************************)
(* Crafter.build: the except clause of lines 203-207                       *)
(***************************************************************************)
\* what leaves build() when the try block raised the Exception e: the handler
\* reads self.debug before it raises CrafterError
BuildHandler(self, e) ==
    IF "debug" \in DOMAIN self
    THEN CrafterError("Build failed: " \o e.msg)
    ELSE Exc("AttributeError", "'Crafter' object has no attribute 'debug'")

(***************************************************************************)
(* The library caller: Crafter(...) and then build()                       *)
(***************************************************************************)
fsNow == [files |-> files, dirs |-> dirs]

self == crafter[1]

\* exe_path = self.output / f"{self.name}.exe"
ExePath(obj) == Join(obj.output, obj.name \o ".exe")

\* Crafter(**args)
Construct ==
    /\ entry = "library"
    /\ pc = "start"
    /\ LET r == CrafterInit(args, fsNow, PYINSTALLER_AVAILABLE)
       IN /\ crafter' = r.obj
          /\ raised' = r.exc
          /\ pc' = IF r.exc = <<>> THEN "constructed" ELSE "init_raised"
    /\ UNCHANGED <<entry, PYINSTALLER_AVAILABLE, args, returned, files, dirs,
                   toolRuns, toolCmd, validation, caught, guiVars>>

\* build() that cleans the temporary files before it validates
BuildValidate_CleansFirst ==
    /\ entry = "library"
    /\ pc = "constructed"
    /\ LET v == _validate_inputs(self, fsNow)
           fs1 == IF self.clean_build THEN _clean_temp_files(self, fsNow) ELSE fsNow
       IN /\ files' = fs1.files
          /\ dirs' = fs1.dirs
          /\ IF v = <<>>
             THEN /\ pc' = "validated"
                  /\ validation' = "passed"
                  /\ UNCHANGED <<raised, caught>>
             ELSE /\ pc' = "build_raised"
                  /\ validation' = "failed"
                  /\ caught' = v
                  /\ raised' = <<BuildHandler(self, v[1])>>
    /\ UNCHANGED <<entry, PYINSTALLER_AVAILABLE, args, crafter, returned,
                   toolRuns, toolCmd, guiVars>>

\* build() that goes on whatever _validate_inputs raised
BuildValidate_Ignored ==
    /\ entry = "library"
    /\ pc = "constructed"
    /\ pc' = "validated"
    /\ validation' = IF _validate_inputs(self, fsNow) = <<>> THEN "passed" ELSE "failed"
    /\ UNCHANGED <<entry, PYINSTALLER_AVAILABLE, args, crafter, returned, files,
                   dirs, toolRuns, toolCmd, raised, caught, guiVars>>

\* build(), lines 166-169: self._validate_inputs()
BuildValidate ==
    /\ entry = "library"
    /\ pc = "constructed"
    /\ LET v == _validate_inputs(self, fsNow)
       IN IF v = <<>>
          THEN /\ pc' = "validated"
               /\ validation' = "passed"
               /\ UNCHANGED <<raised, caught>>
          ELSE /\ pc' = "build_raised"
               /\ validation' = "failed"
               /\ caught' = v
               /\ raised' = <<BuildHandler(self, v[1])>>
    /\ UNCHANGED <<entry, PYINSTALLER_AVAILABLE, args, crafter, returned, files,
                   dirs, toolRuns, toolCmd, guiVars>>

\* build(), lines 171-190: clean, create the output directory, remove the old
\* executable, build the command
BuildPrepare ==
    /\ entry = "library"
    /\ pc = "validated"
    /\ \E ws \in TempSuffixes, ss \in TempSuffixes :
        LET work_dir == TempDir("pyinstaller_work_", ws)
            spec_dir == TempDir("pyinstaller_spec_", ss)
            fs1 == IF self.clean_build THEN _clean_temp_files(self, fsNow) ELSE fsNow
            mk == MkdirP(fs1, self.output)
            exe_path == ExePath(self)
            rm == IF self.force_replace /\ Exists(mk.fs, exe_path)
                  THEN Unlink(mk.fs, exe_path)
                  ELSE [exc |-> <<>>, fs |-> mk.fs]
            fs4 == [rm.fs EXCEPT !.dirs = @ \cup {work_dir, spec_dir}]
        IN /\ ~Exists(fsNow, work_dir)
           /\ ~Exists(fsNow, spec_dir)
           /\ IF mk.exc # <<>>
              THEN /\ pc' = "build_raised"
                   /\ caught' = mk.exc
                   /\ raised' = <<BuildHandler(self, mk.exc[1])>>
                   /\ files' = mk.fs.files
                   /\ dirs' = mk.fs.dirs
                   /\ toolCmd' = toolCmd
              ELSE IF rm.exc # <<>>
              THEN /\ pc' = "build_raised"
                   /\ caught' = rm.exc
                   /\ raised' = <<BuildHandler(self, rm.exc[1])>>
                   /\ files' = rm.fs.files
                   /\ dirs' = rm.fs.dirs
                   /\ toolCmd' = toolCmd
              ELSE /\ pc' = "ready"
                   /\ UNCHANGED <<raised, caught>>
                   /\ files' = fs4.files
                   /\ dirs' = fs4.dirs
                   /\ toolCmd' = _build_command(self, work_dir, spec_dir)
    /\ UNCHANGED <<entry, PYINSTALLER_AVAILABLE, args, crafter, returned, toolRuns,
                   validation, guiVars>>

\* what PyInstaller.__main__.run(cmd) may do: return with or without having
\* written the executable, raise an Exception, or raise SystemExit
ToolOutcomes == {"wrote", "nothing", "raise", "exit"}

\* build(), line 193: PyInstaller.__main__.run(cmd)
BuildRunTool ==
    /\ entry = "library"
    /\ pc = "ready"
    /\ toolRuns' = toolRuns + 1
    /\ \E outcome \in ToolOutcomes :
        CASE outcome = "wrote" ->
                /\ ExePath(self) \notin dirs
                /\ files' = files \cup {ExePath(self)}
                /\ pc' = "ran"
                /\ UNCHANGED <<raised, caught>>
          [] outcome = "nothing" ->
                /\ files' = files
                /\ pc' = "ran"
                /\ UNCHANGED <<raised, caught>>
          [] outcome = "raise" ->
                /\ files' = files
                /\ pc' = "build_raised"
                /\ caught' = <<Exc("RuntimeError", "PyInstaller failed")>>
                /\ raised' = <<BuildHandler(self, Exc("RuntimeError", "PyInstaller failed"))>>
          [] outcome = "exit" ->
                /\ files' = files
                /\ pc' = "build_raised"
                /\ caught' = caught
                /\ raised' = <<Exc("SystemExit", "1")>>
    /\ UNCHANGED <<entry, PYINSTALLER_AVAILABLE, args, crafter, returned, dirs, toolCmd,
                   validation, guiVars>>

\* build() that returns the path without looking for the file
BuildVerify_Unchecked ==
    /\ entry = "library"
    /\ pc = "ran"
    /\ pc' = "returned"
    /\ returned' = ExePath(self)
    /\ UNCHANGED <<entry, PYINSTALLER_AVAILABLE, args, crafter, files, dirs,
                   toolRuns, toolCmd, validation, raised, caught, guiVars>>

\* build(), lines 195-201: verify the executable was created
BuildVerify ==
    /\ entry = "library"
    /\ pc = "ran"
    /\ IF Exists(fsNow, ExePath(self))
       THEN /\ pc' = "returned"
            /\ returned' = ExePath(self)
            /\ UNCHANGED <<raised, caught>>
       ELSE /\ pc' = "build_raised"
            /\ returned' = returned
            /\ caught' = <<CrafterError("Build completed but executable file was not found.")>>
            /\ raised' = <<BuildHandler(self,
                              CrafterError("Build completed but executable file was not found."))>>
    /\ UNCHANGED <<entry, PYINSTALLER_AVAILABLE, args, crafter, files, dirs,
                   toolRuns, toolCmd, validation, guiVars>>

(***************************************************************************)
(* The PyCrafter window                                                    *)
(***************************************************************************)
\* PyCrafter.__init__, lines 356-372
InitialForm ==
    [script_var |-> "", output_var |-> "", icon_var |-> "", name_var |-> "",
     hidden_imports_var |-> "", excluded_modules_var |-> "", data_files_var |-> "",
     binary_files_var |-> "", extra_paths_var |-> "",
     no_console_var |-> FALSE, one_file_var |-> TRUE, admin_var |-> FALSE,
     clean_build_var |-> FALSE, force_replace_var |-> FALSE, optimize_var |-> FALSE]

\* parse_comma_separated; None is the empty list here, as every caller tests
\* the result for truth only
parse_comma_separated(text) ==
    IF Strip(text) = "" THEN <<>>
    ELSE StripItems(Split(text, ","))

\* f"{file_path};." for each file_path
WithDest(items) == [i \in 1..Len(items) |-> items[i] \o ";."]

\* build_exe that passes the data and binary files without a destination
BuildExeCommand_NoDest(f) ==
    <<"pyinstaller">>
    \o (IF f.one_file_var THEN <<"--onefile">> ELSE <<>>)
    \o (IF f.no_console_var THEN <<"--noconsole">> ELSE <<>>)
    \o (IF f.admin_var THEN <<"--uac-admin">> ELSE <<>>)
    \o (IF f.clean_build_var THEN <<"--clean">> ELSE <<>>)
    \o (IF f.force_replace_var THEN <<"--noconfirm">> ELSE <<>>)
    \o (IF f.optimize_var THEN <<"--optimize=2">> ELSE <<>>)
    \o (IF f.output_var # "" THEN <<"--distpath", f.output_var>> ELSE <<>>)
    \o (IF f.icon_var # "" THEN <<"--icon", f.icon_var>> ELSE <<>>)
    \o (IF f.name_var # "" THEN <<"--name", f.name_var>> ELSE <<>>)
    \o OptionPairs("--hidden-import", parse_comma_separated(f.hidden_imports_var))
    \o OptionPairs("--exclude-module", parse_comma_separated(f.excluded_modules_var))
    \o OptionPairs("--add-data", parse_comma_separated(f.data_files_var))
    \o OptionPairs("--add-binary", parse_comma_separated(f.binary_files_var))
    \o OptionPairs("--paths", parse_comma_separated(f.extra_paths_var))
    \o <<f.script_var>>

\* build_exe, lines 763-806: the command
BuildExeCommand(f) ==
    <<"pyinstaller">>
    \o (IF f.one_file_var THEN <<"--onefile">> ELSE <<>>)
    \o (IF f.no_console_var THEN <<"--noconsole">> ELSE <<>>)
    \o (IF f.admin_var THEN <<"--uac-admin">> ELSE <<>>)
    \o (IF f.clean_build_var THEN <<"--clean">> ELSE <<>>)
    \o (IF f.force_replace_var THEN <<"--noconfirm">> ELSE <<>>)
    \o (IF f.optimize_var THEN <<"--optimize=2">> ELSE <<>>)
    \o (IF f.output_var # "" THEN <<"--distpath", f.output_var>> ELSE <<>>)
    \o (IF f.icon_var # "" THEN <<"--icon", f.icon_var>> ELSE <<>>)
    \o (IF f.name_var # "" THEN <<"--name", f.name_var>> ELSE <<>>)
    \o OptionPairs("--hidden-import", parse_comma_separated(f.hidden_imports_var))
    \o OptionPairs("--exclude-module", parse_comma_separated(f.excluded_modules_var))
    \o OptionPairs("--add-data", WithDest(parse_comma_separated(f.data_files_var)))
    \o OptionPairs("--add-binary", WithDest(parse_comma_separated(f.binary_files_var)))
    \o OptionPairs("--paths", parse_comma_separated(f.extra_paths_var))
    \o <<f.script_var>>

\* where the tool run by line 811 puts the executable: under --distpath, or
\* under dist in its working directory, the script's directory
GuiExePath(script, output, name) ==
    Join(IF output # "" THEN Resolve(output) ELSE Join(PathParent(Resolve(script)), "dist"),
         (IF name # "" THEN name ELSE PathStem(script)) \o ".exe")

Window(kind, of) == [kind |-> kind, of |-> of]

\* Toplevel.destroy(): the window goes, and the grab with it if it held it
Destroy(ws, w) == ws \ {w}

GrabAfterDestroy(g, w) == IF g = <<w>> THEN <<>> ELSE g

\* clicks and keys reach the main window only while no window holds a grab
MainWindowActive == entry = "gui" /\ mainpc = "mainloop" /\ grab = <<>>

\* the number of builds one run of the window is followed for
MaxBuilds == 2

\* the forms the user fills in
GuiForms ==
    {[InitialForm EXCEPT !.script_var = s] : s \in {"", "/w/app.py"}}
    \cup {[InitialForm EXCEPT !.script_var = s, !.output_var = "/w/dist",
                              !.one_file_var = FALSE, !.hidden_imports_var = "os, sys"] :
            s \in {"", "/w/app.py"}}

\* the user edits the fields of the main window
EditForm ==
    /\ MainWindowActive
    /\ Len(threads) < MaxBuilds
    /\ \E f \in GuiForms : f # form /\ form' = f
    /\ UNCHANGED <<entry, PYINSTALLER_AVAILABLE, files, dirs, libVars, mainpc, windows,
                   grab, threads>>

\* build_exe, lines 734-736: no script selected
BuildExeNoScript ==
    /\ MainWindowActive
    /\ form.script_var = ""
    /\ windows' = windows \cup {Window("Validation Error", 0)}
    /\ grab' = <<Window("Validation Error", 0)>>
    /\ mainpc' = "showerror"
    /\ UNCHANGED <<entry, PYINSTALLER_AVAILABLE, files, dirs, libVars, form, threads>>

\* build_exe, lines 738-741: PyInstaller missing
BuildExeNoTool ==
    /\ MainWindowActive
    /\ form.script_var # ""
    /\ ~PYINSTALLER_AVAILABLE
    /\ windows' = windows \cup {Window("PyInstaller Error", 0)}
    /\ grab' = <<Window("PyInstaller Error", 0)>>
    /\ mainpc' = "showerror"
    /\ UNCHANGED <<entry, PYINSTALLER_AVAILABLE, files, dirs, libVars, form, threads>>

\* build_exe, lines 743-806 and 992-993: the building dialog takes the grab,
\* the command is built and the thread is started; build_exe returns
BuildExeStart ==
    /\ MainWindowActive
    /\ form.script_var # ""
    /\ PYINSTALLER_AVAILABLE
    /\ Len(threads) < MaxBuilds
    /\ LET id == Len(threads) + 1
       IN /\ windows' = windows \cup {Window("building", id)}
          /\ grab' = <<Window("building", id)>>
          /\ threads' = Append(threads,
                [pc |-> "subprocess",
                 cmd |-> BuildExeCommand(form),
                 script |-> form.script_var,
                 output |-> form.output_var,
                 exe |-> GuiExePath(form.script_var, form.output_var, form.name_var),
                 result |-> "none"])
    /\ mainpc' = "mainloop"
    /\ UNCHANGED <<entry, PYINSTALLER_AVAILABLE, files, dirs, libVars, form>>

\* how subprocess.run(cmd, ...) of line 811 may end: exit status 0 with or
\* without an executable written, another exit status, or an exception (the
\* program pyinstaller is not on the PATH)
RunOutcomes == {"zero_wrote", "zero_nothing", "nonzero", "raise"}

\* run_build, line 811: the blocking call ends
SubprocessEnds(i) ==
    /\ entry = "gui"
    /\ threads[i].pc = "subprocess"
    /\ \E outcome \in RunOutcomes :
        /\ threads' = [threads EXCEPT ![i].pc = "ran", ![i].result = outcome]
        /\ files' = IF outcome = "zero_wrote" THEN files \cup {threads[i].exe} ELSE files
    /\ UNCHANGED <<entry, PYINSTALLER_AVAILABLE, dirs, libVars, form, mainpc, windows, grab>>

\* run_build, lines 812-822, in two steps, as the main loop may handle an event
\* between the thread's calls into Tk: the building dialog is destroyed; then
\* exit status 0 shows the success dialog; otherwise show_build_error reads its
\* local variable dialog before assigning it, and that exception, like one
\* raised by subprocess.run, ends in the "Build Error" message box
\* run_build that destroys the building dialog without waiting for the call
DestroyBuildingDialog_Early(i) ==
    /\ entry = "gui"
    /\ threads[i].pc \in {"subprocess", "ran"}
    /\ Window("building", i) \in windows
    /\ windows' = Destroy(windows, Window("building", i))
    /\ grab' = GrabAfterDestroy(grab, Window("building", i))
    /\ threads' = [threads EXCEPT ![i].pc = IF @ = "ran" THEN "destroyed" ELSE @]
    /\ UNCHANGED <<entry, PYINSTALLER_AVAILABLE, files, dirs, libVars, form, mainpc>>

\* run_build, line 812 (and 821): building_dialog.destroy()
DestroyBuildingDialog(i) ==
    /\ entry = "gui"
    /\ threads[i].pc = "ran"
    /\ windows' = Destroy(windows, Window("building", i))
    /\ grab' = GrabAfterDestroy(grab, Window("building", i))
    /\ threads' = [threads EXCEPT ![i].pc = "destroyed"]
    /\ UNCHANGED <<entry, PYINSTALLER_AVAILABLE, files, dirs, libVars, form, mainpc>>

\* run_build, lines 814-822: the success dialog or the message box
ShowResult(i) ==
    /\ entry = "gui"
    /\ threads[i].pc = "destroyed"
    /\ LET shown == IF threads[i].result \in {"zero_wrote", "zero_nothing"}
                    THEN Window("success", i)
                    ELSE Window("Build Error", i)
       IN /\ windows' = windows \cup {shown}
          /\ grab' = <<shown>>
          /\ threads' = [threads EXCEPT ![i].pc =
                            IF shown.kind = "success" THEN "done" ELSE "showerror"]
    /\ UNCHANGED <<entry, PYINSTALLER_AVAILABLE, files, dirs, libVars, form, mainpc>>

\* the user closes a message box or the success dialog; the building dialog
\* has no button and ignores WM_DELETE_WINDOW (line 1102)
Dismiss(w) ==
    /\ entry = "gui"
    /\ w \in windows
    /\ w.kind # "building"
    /\ grab = <<w>>
    /\ windows' = Destroy(windows, w)
    /\ grab' = GrabAfterDestroy(grab, w)
    /\ mainpc' = IF w.of = 0 THEN "mainloop" ELSE mainpc
    /\ threads' = IF w.kind = "Build Error"
                  THEN [threads EXCEPT ![w.of].pc = "done"]
                  ELSE threads
    /\ UNCHANGED <<entry, PYINSTALLER_AVAILABLE, files, dirs, libVars, form>>

(***************************************************************************)
(* The file systems and the calls the model starts from                    *)
(***************************************************************************)
BaseFiles == {"/w/app.py", "/w/sub/Tool.PY", "/w/notes.txt", "/w/.py", "/w/app.ico",
              "/w/d.dat", "/w/lib.so"}

BaseDirs == {"/", "/w", "/w/sub", "/w/pkg.py", "/w/locked", "/ro", "/ro/out", "/tmp",
             "/home", "/home/u"}

\* executables left by an earlier build
OldExes ==
    {Join(d, n \o ".exe") : d \in {"/w", "/w/sub", "/w/dist", "/w/build", "/w/locked", "/ro/out"},
                           n \in {"app", "Tool", "tool"}}

\* what an earlier build left beside the script and in the cache
LeftoverFiles == {"/w/app.spec", "/w/build/app/out.toc", "/w/sub/Tool.spec"}
LeftoverDirs == {"/w/build", "/w/build/app", "/w/__pycache__", "/home/u/.pyinstaller"}

FileSystems ==
    {[files |-> BaseFiles \cup (IF exes THEN OldExes ELSE {})
                          \cup (IF left THEN LeftoverFiles ELSE {}),
      dirs |-> BaseDirs \cup (IF dist \/ exes THEN {"/w/dist"} ELSE {})
                        \cup (IF exes THEN {"/w/build"} ELSE {})
                        \cup (IF left THEN LeftoverDirs ELSE {})] :
        exes \in BOOLEAN, dist \in BOOLEAN, left \in BOOLEAN}

DefaultArgs ==
    [script |-> PyStr("app.py"), output |-> PyNone, icon |-> PyNone, name |-> PyNone,
     no_console |-> FALSE, one_file |-> TRUE, require_admin |-> FALSE,
     clean_build |-> FALSE, force_replace |-> FALSE, optimize |-> FALSE,
     hidden_imports |-> <<>>, excluded_modules |-> <<>>, data_files |-> <<>>,
     binary_files |-> <<>>, extra_paths |-> <<>>]

ScriptValues ==
    {PyNone, PyInt("0"), PyInt("7"), PyStr(""), PyStr("app.py"), PyStr("sub/Tool.PY"),
     PyStr("gone.py"), PyStr("notes.txt"), PyStr("pkg.py"), PyStr(".py")}

\* calls that differ in what _validate_inputs reads
ValidationArgs ==
    {[DefaultArgs EXCEPT !.script = s, !.output = o, !.icon = i, !.name = n,
                         !.data_files = d, !.binary_files = b] :
        s \in {PyStr("app.py"), PyStr("sub/Tool.PY")},
        o \in {PyNone, PyStr("dist"), PyStr("/ro/out"), PyStr("/w/locked")},
        i \in {PyNone, PyStr("app.ico"), PyStr("gone.ico")},
        n \in {PyNone, PyStr("tool"), PyStr("a*b"), PyStr("my:app")},
        d \in {<<>>, <<"d.dat;.">>, <<"d.dat;.", "gone.dat;data">>, <<"gone.dat">>},
        b \in {<<>>, <<"lib.so;.", "gone.so;.">>, <<"gone.so">>}}

\* calls that differ in what the rest of build() reads
FlowArgs ==
    {[DefaultArgs EXCEPT !.script = s, !.output = o, !.name = n, !.one_file = f,
                         !.clean_build = c, !.force_replace = r] :
        s \in {PyStr("app.py"), PyStr("sub/Tool.PY")},
        o \in {PyNone, PyStr("dist"), PyStr("/ro/out"), PyStr("/w/locked"),
               PyStr("/ro/new"), PyStr("notes.txt"), PyStr("build")},
        n \in {PyNone, PyStr("tool")},
        f \in BOOLEAN, c \in BOOLEAN, r \in BOOLEAN}

\* calls that differ in the script only
ScriptArgs == {[DefaultArgs EXCEPT !.script = s] : s \in ScriptValues}

PlainFileSystem == [files |-> BaseFiles, dirs |-> BaseDirs]

\* the calls followed, each with the file system it meets and the outcome of
\* the import of PyInstaller
LibraryStarts ==
    {[args |-> a, fs |-> PlainFileSystem, available |-> v] :
        a \in ScriptArgs, v \in BOOLEAN}
    \cup {[args |-> a, fs |-> PlainFileSystem, available |-> TRUE] : a \in ValidationArgs}
    \cup {[args |-> a, fs |-> fs, available |-> TRUE] : a \in FlowArgs, fs \in FileSystems}

GuiStarts ==
    {[args |-> DefaultArgs, fs |-> PlainFileSystem, available |-> v] : v \in BOOLEAN}

InitLibraryVars ==
    /\ crafter = <<>>
    /\ pc = "start"
    /\ raised = <<>>
    /\ returned = ""
    /\ toolRuns = 0
    /\ toolCmd = <<>>
    /\ validation = "none"
    /\ caught = <<>>

InitGuiVars ==
    /\ form = InitialForm
    /\ mainpc = "mainloop"
    /\ windows = {}
    /\ grab = <<>>
    /\ threads = <<>>

Init ==
    /\ entry \in {"library", "gui"}
    /\ \E s \in (IF entry = "library" THEN LibraryStarts ELSE GuiStarts) :
        /\ PYINSTALLER_AVAILABLE = s.available
        /\ files = s.fs.files
        /\ dirs = s.fs.dirs
        /\ args = s.args
    /\ InitLibraryVars
    /\ InitGuiVars

Next ==
    \/ Construct
    \/ BuildValidate
    \/ BuildPrepare
    \/ BuildRunTool
    \/ BuildVerify
    \/ EditForm
    \/ BuildExeNoScript
    \/ BuildExeNoTool
    \/ BuildExeStart
    \/ \E i \in 1..Len(threads) : SubprocessEnds(i)
    \/ \E i \in 1..Len(threads) : DestroyBuildingDialog(i)
    \/ \E i \in 1..Len(threads) : ShowResult(i)
    \/ \E w \in windows : Dismiss(w)

Spec == Init /\ [][Next]_vars

(***************************************************************************)
(* _build_command called on its own, over many configurations              *)
(***************************************************************************)
\* the longest the five lists of one call are together
MaxItems == 3

\* list items as a caller passes them: padded, blank, and one that reads like
\* an option
RawItems == {" os ", "--onefile"}

\* the items of group g of a sequence of <<group, item>> pairs, in order
RECURSIVE Pick(_, _)
Pick(flat, g) ==
    IF flat = <<>> THEN <<>>
    ELSE (IF flat[1][1] = g THEN <<flat[1][2]>> ELSE <<>>) \o Pick(Tail(flat), g)

ListsOf(a, flat) ==
    [a EXCEPT !.hidden_imports = Pick(flat, 1), !.excluded_modules = Pick(flat, 2),
              !.data_files = Pick(flat, 3), !.binary_files = Pick(flat, 4),
              !.extra_paths = Pick(flat, 5)]

FlatLists(n) == UNION {[1..k -> (1..5) \X RawItems] : k \in 0..n}

FlagArgs ==
    {[DefaultArgs EXCEPT !.output = PyStr("dist"), !.icon = i, !.one_file = f,
                         !.no_console = c, !.require_admin = r, !.optimize = z] :
        i \in {PyNone, PyStr(""), PyStr("app.ico")},
        f \in BOOLEAN, c \in BOOLEAN, r \in BOOLEAN, z \in BOOLEAN}

AllOrNoFlags ==
    {a \in FlagArgs : /\ a.icon # PyStr("")
                      /\ a.one_file = (a.icon # PyNone)
                      /\ a.no_console = a.one_file
                      /\ a.require_admin = a.one_file
                      /\ a.optimize = a.one_file}

CommandArgs ==
    {ListsOf(a, flat) : a \in FlagArgs, flat \in FlatLists(1)}
    \cup {ListsOf(a, flat) : a \in AllOrNoFlags, flat \in FlatLists(MaxItems)}
    \cup {[a EXCEPT !.hidden_imports = h, !.excluded_modules = <<"tkinter">>,
                    !.data_files = d, !.binary_files = <<"lib.so;.">>,
                    !.extra_paths = x] :
            a \in AllOrNoFlags,
            h \in {<<"os">>, <<"sys", " ", " os ">>},
            d \in {<<"d.dat;.">>, <<"d.dat;data", "d.dat;.">>},
            x \in {<<"sub">>, <<"--paths", "sub">>}}

InitCommand ==
    /\ entry = "library"
    /\ PYINSTALLER_AVAILABLE = TRUE
    /\ files = PlainFileSystem.files
    /\ dirs = PlainFileSystem.dirs
    /\ args \in CommandArgs
    /\ InitLibraryVars
    /\ InitGuiVars

\* cmd = crafter._build_command()
CallBuildCommand ==
    /\ entry = "library"
    /\ pc = "constructed"
    /\ \E ws \in TempSuffixes, ss \in TempSuffixes :
        LET work_dir == TempDir("pyinstaller_work_", ws)
            spec_dir == TempDir("pyinstaller_spec_", ss)
        IN /\ ~Exists(fsNow, work_dir)
           /\ ~Exists(fsNow, spec_dir)
           /\ dirs' = dirs \cup {work_dir, spec_dir}
           /\ toolCmd' = _build_command(self, work_dir, spec_dir)
    /\ pc' = "command"
    /\ UNCHANGED <<entry, PYINSTALLER_AVAILABLE, files, args, crafter, raised, returned,
                   toolRuns, validation, caught, guiVars>>

NextCommand == Construct \/ CallBuildCommand

SpecCommand == InitCommand /\ [][NextCommand]_vars

(***************************************************************************)
(* build_exe called on forms filled in many ways                           *)
(***************************************************************************)
CheckBoxes ==
    {[InitialForm EXCEPT !.one_file_var = a, !.no_console_var = b, !.admin_var = c,
                         !.clean_build_var = d, !.force_replace_var = e,
                         !.optimize_var = z] :
        a \in BOOLEAN, b \in BOOLEAN, c \in BOOLEAN, d \in BOOLEAN, e \in BOOLEAN,
        z \in BOOLEAN}

AllOrNoBoxes ==
    {f \in CheckBoxes : /\ f.no_console_var = ~f.one_file_var
                        /\ f.admin_var = f.no_console_var
                        /\ f.clean_build_var = f.no_console_var
                        /\ f.force_replace_var = f.no_console_var
                        /\ f.optimize_var = f.no_console_var}

\* what the user types into the fields: nothing, a blank, a value, and what
\* reads like an option
CommandForms ==
    {[f EXCEPT !.script_var = "/w/app.py", !.output_var = o, !.icon_var = o,
               !.name_var = n, !.hidden_imports_var = h, !.data_files_var = h] :
        f \in CheckBoxes, o \in {"", "out"}, n \in {"", "--onefile"},
        h \in {"", "a,b"}}
    \cup {[f EXCEPT !.script_var = s, !.output_var = o, !.icon_var = i,
                    !.name_var = n, !.hidden_imports_var = h,
                    !.excluded_modules_var = x, !.data_files_var = d,
                    !.binary_files_var = b, !.extra_paths_var = x] :
            f \in AllOrNoBoxes, s \in {"app.py"},
            o \in {"", " ", "/w/dist"}, i \in {"", "app.ico"}, n \in {"", "tool"},
            h \in {"", " os , sys,,", "--clean"},
            x \in {"", " , ", "--name,sub"},
            d \in {"", "d.dat", " d.dat ;data, e.dat"},
            b \in {"", "lib.so,"}}
    \cup {[InitialForm EXCEPT !.hidden_imports_var = "os"]}

InitForm ==
    /\ entry = "gui"
    /\ PYINSTALLER_AVAILABLE = TRUE
    /\ files = PlainFileSystem.files
    /\ dirs = PlainFileSystem.dirs
    /\ args = DefaultArgs
    /\ InitLibraryVars
    /\ InitGuiVars

\* the user fills in the form of the fresh window
FillForm ==
    /\ MainWindowActive
    /\ threads = <<>>
    /\ form = InitialForm
    /\ form' \in CommandForms
    /\ UNCHANGED <<entry, PYINSTALLER_AVAILABLE, files, dirs, libVars, mainpc, windows,
                   grab, threads>>

NextForm == FillForm \/ BuildExeNoScript \/ BuildExeStart

SpecForm == InitForm /\ [][NextForm]_vars

(***************************************************************************)
(* Reading a command the way the tool does                                 *)
(***************************************************************************)
ListOptions == {"--hidden-import", "--exclude-module", "--add-data", "--add-binary",
                "--paths"}

PathOptions == {"--name", "--distpath", "--workpath", "--specpath"}

\* the options that take the next argument as their value
ValueOptions == PathOptions \cup ListOptions \cup {"--icon", "--optimize"}

Switches == {"--onefile", "--noconsole", "--uac-admin"}

\* the positions from i on that hold an option, not an option's value
RECURSIVE OptionPositions(_, _)
OptionPositions(cmd, i) ==
    IF i > Len(cmd) THEN {}
    ELSE {i} \cup OptionPositions(cmd, IF cmd[i] \in ValueOptions THEN i + 2 ELSE i + 1)

\* the positions at which cmd holds the option o
OptionAt(cmd, o) == {i \in OptionPositions(cmd, 2) : cmd[i] = o}

HasPrefix(s, prefix) == Len(s) >= Len(prefix) /\ SubSeq(s, 1, Len(prefix)) = prefix

(***************************************************************************)
(* C1: the command _build_command returns starts with the script and the   *)
(* pairs --name, --distpath, --workpath, --specpath; it holds --icon with  *)
(* the icon iff an icon is set, --onefile iff one_file, --noconsole iff     *)
(* no_console, --uac-admin iff require_admin, --optimize 2 iff optimize;   *)
(* every option occurs at most once and no option outside these and the    *)
(* list options occurs.                                                    *)
(***************************************************************************)
C1_BuildCommandOptions ==
    pc = "command" =>
        LET cmd == toolCmd
            Count(o) == Cardinality(OptionAt(cmd, o))
            Once(b) == IF b THEN 1 ELSE 0
        IN /\ Len(cmd) >= 9
           /\ cmd[1] = self.script
           /\ cmd[2] = "--name" /\ cmd[3] = self.name
           /\ cmd[4] = "--distpath" /\ cmd[5] = self.output
           /\ cmd[6] = "--workpath" /\ cmd[7] \in dirs
           /\ HasPrefix(cmd[7], "/tmp/pyinstaller_work_")
           /\ cmd[8] = "--specpath" /\ cmd[9] \in dirs
           /\ HasPrefix(cmd[9], "/tmp/pyinstaller_spec_")
           /\ \A o \in PathOptions : Count(o) = 1
           /\ Count("--icon") = Once(self.icon # PyNone)
           /\ \A i \in OptionAt(cmd, "--icon") : cmd[i + 1] = self.icon.s
           /\ Count("--onefile") = Once(self.one_file)
           /\ Count("--noconsole") = Once(self.no_console)
           /\ Count("--uac-admin") = Once(self.require_admin)
           /\ Count("--optimize") = Once(self.optimize)
           /\ \A i \in OptionAt(cmd, "--optimize") : cmd[i + 1] = "2"
           /\ \A i \in OptionPositions(cmd, 2) : cmd[i] \in ValueOptions \cup Switches

\* a command for a configuration with an icon and optimize but not one_file,
\* whose only list item reads "--onefile"
C1_Witness ==
    /\ pc = "command"
    /\ self.icon # PyNone
    /\ ~self.one_file
    /\ self.optimize
    /\ self.hidden_imports = <<"--onefile">>

(***************************************************************************)
(* C2: the command ends with one option/value pair per item of             *)
(* hidden_imports, excluded_modules, data_files, binary_files and          *)
(* extra_paths, in that order of lists and in list order, the value being  *)
(* the item; the list options occur nowhere else.                          *)
(***************************************************************************)
ListItems(obj) ==
    obj.hidden_imports \o obj.excluded_modules \o obj.data_files \o obj.binary_files
        \o obj.extra_paths

\* the option the k-th of ListItems(obj) belongs to
ListOptionOf(obj, k) ==
    IF k <= Len(obj.hidden_imports) THEN "--hidden-import"
    ELSE IF k <= Len(obj.hidden_imports \o obj.excluded_modules) THEN "--exclude-module"
    ELSE IF k <= Len(obj.hidden_imports \o obj.excluded_modules \o obj.data_files)
    THEN "--add-data"
    ELSE IF k <= Len(ListItems(obj)) - Len(obj.extra_paths) THEN "--add-binary"
    ELSE "--paths"

C2_BuildCommandListPairs ==
    pc = "command" =>
        LET cmd == toolCmd
            items == ListItems(self)
            n == Len(items)
            base == Len(cmd) - 2 * n
        IN /\ base >= 9
           /\ \A k \in 1..n :
                /\ cmd[base + 2 * k - 1] = ListOptionOf(self, k)
                /\ cmd[base + 2 * k] = items[k]
           /\ {i \in OptionPositions(cmd, 2) : cmd[i] \in ListOptions}
                = {base + 2 * k - 1 : k \in 1..n}

\* a command for a configuration whose five lists all hold items, one of them
\* two different ones
C2_Witness ==
    /\ pc = "command"
    /\ self.hidden_imports = <<"sys", "os">>
    /\ self.excluded_modules # <<>>
    /\ self.data_files = <<"d.dat;data", "d.dat;.">>
    /\ self.binary_files # <<>>
    /\ self.extra_paths = <<"--paths", "sub">>

(***************************************************************************)
(* C3 as stated: on every build path a build is reported as successful     *)
(* only if the output executable exists then: build() returns only with    *)
(* the executable present, and the window's success dialog of a build is   *)
(* open only with that build's executable present.                         *)
(***************************************************************************)
SuccessShown(i) == Window("success", i) \in windows

C3_SuccessOnlyWithExecutable ==
    /\ pc = "returned" => Exists(fsNow, ExePath(self))
    /\ \A i \in 1..Len(threads) : SuccessShown(i) => threads[i].exe \in files

(***************************************************************************)
(* C3 as amended: build() returns only after the tool was invoked and with *)
(* the executable present; the window shows the success dialog of a build  *)
(* only if the tool's exit status was 0, and does not look for the file.   *)
(***************************************************************************)
C3_SuccessByFileOrExitStatus ==
    /\ pc = "returned" => toolRuns >= 1 /\ Exists(fsNow, ExePath(self))
    /\ \A i \in 1..Len(threads) :
        SuccessShown(i) => threads[i].result \in {"zero_wrote", "zero_nothing"}

\* the window reports success for a build whose tool ended with status 0 and
\* wrote nothing
C3_Witness ==
    \E i \in 1..Len(threads) :
        SuccessShown(i) /\ threads[i].result = "zero_nothing" /\ threads[i].exe \notin files

(***************************************************************************)
(* C4 as stated: whatever fails in build(), the exception that leaves it   *)
(* is a CrafterError whose message starts with "Build failed: ".           *)
(***************************************************************************)
C4_BuildFailuresAreCrafterErrors ==
    pc = "build_raised" =>
        /\ raised[1].type = "CrafterError"
        /\ HasPrefix(raised[1].msg, "Build failed: ")

(***************************************************************************)
(* C5: when build() returns, it returns <output>/<name>.exe, that path     *)
(* exists, _validate_inputs had passed and the tool was invoked exactly    *)
(* once.                                                                   *)
(***************************************************************************)
C5_ReturnMeansBuilt ==
    pc = "returned" =>
        /\ returned = self.output \o "/" \o self.name \o ".exe"
        /\ Exists(fsNow, returned)
        /\ validation = "passed"
        /\ toolRuns = 1
        /\ raised = <<>>

\* build() returned for a configuration with one_file = False
C5_Witness == pc = "returned" /\ ~self.one_file /\ toolRuns = 1

(***************************************************************************)
(* C6: a step opens a building dialog iff it starts a thread, and then it  *)
(* starts one thread only, whose subprocess call is still running when     *)
(* build_exe has returned to the main loop; while a thread's subprocess    *)
(* call runs, its building dialog stays and none of its result windows is  *)
(* shown, and the windows change only after the call has ended.            *)
(***************************************************************************)
BuildingDialogs(ws) == {w \in ws : w.kind = "building"}

ResultWindows(ws, i) == {w \in ws : w.of = i /\ w.kind \in {"success", "Build Error"}}

C6_StartsOneThread ==
    /\ Len(threads') \in {Len(threads), Len(threads) + 1}
    /\ (BuildingDialogs(windows') \ BuildingDialogs(windows) # {})
            <=> (Len(threads') = Len(threads) + 1)
    /\ Len(threads') = Len(threads) + 1 =>
        /\ BuildingDialogs(windows') \ BuildingDialogs(windows)
                = {Window("building", Len(threads'))}
        /\ threads'[Len(threads')].pc = "subprocess"
        /\ mainpc' = "mainloop"
        /\ \A i \in 1..Len(threads) : threads'[i] = threads[i]

C6_CallBeforeWidgets ==
    \A i \in 1..Len(threads) :
        /\ threads[i].pc = "subprocess" =>
            /\ Window("building", i) \in windows
            /\ ResultWindows(windows, i) = {}
        /\ threads[i].pc = "subprocess" /\ threads'[i].pc = "subprocess" =>
            /\ Window("building", i) \in windows'
            /\ ResultWindows(windows', i) = {}

C6_ThreadRunsCallBeforeWidgets ==
    [][C6_StartsOneThread /\ C6_CallBeforeWidgets]_vars

\* build_exe has returned to the main loop, the thread it started is in its
\* subprocess call and the building dialog is open
C6_Witness ==
    /\ mainpc = "mainloop"
    /\ Len(threads) >= 1
    /\ threads[Len(threads)].pc = "subprocess"
    /\ grab = <<Window("building", Len(threads))>>

(***************************************************************************)
(* C7: Crafter(...) raises CrafterError and leaves no object when          *)
(* PyInstaller is not importable; else when script is empty or no string;  *)
(* else when script is no regular file or its suffix in lower case is not  *)
(* ".py"; the first of these that applies gives the message.  Otherwise    *)
(* it returns an object.                                                   *)
(***************************************************************************)
ScriptIsNonEmptyString == args.script.kind = "str" /\ args.script.s # ""

ScriptIsPyFile ==
    /\ Resolve(args.script.s) \in files
    /\ PathSuffix(args.script.s) \in {".py", ".Py", ".pY", ".PY"}

C7_ConstructorChecks ==
    pc \in {"init_raised", "constructed"} =>
        IF ~PYINSTALLER_AVAILABLE
        THEN /\ pc = "init_raised" /\ crafter = <<>>
             /\ raised = <<CrafterError("PyInstaller is not installed. Install it using: pip install pyinstaller")>>
        ELSE IF ~ScriptIsNonEmptyString
        THEN /\ pc = "init_raised" /\ crafter = <<>>
             /\ raised = <<CrafterError("Script path must be a non-empty string")>>
        ELSE IF ~ScriptIsPyFile
        THEN /\ pc = "init_raised" /\ crafter = <<>>
             /\ raised = <<CrafterError("The provided script path must point to a valid .py file.")>>
        ELSE /\ pc = "constructed" /\ crafter # <<>> /\ raised = <<>>

\* PyInstaller is missing and the script is not a string either: the first
\* check gives the message
C7_Witness ==
    /\ pc = "init_raised"
    /\ ~PYINSTALLER_AVAILABLE
    /\ args.script.kind # "str"

(***************************************************************************)
(* The states in which _validate_inputs has just ended: nothing has        *)
(* touched the file system since build() was entered                       *)
(***************************************************************************)
JustValidated ==
    \/ pc = "validated"
    \/ pc = "build_raised" /\ validation = "failed"

CaughtMessage(prefix) == caught # <<>> /\ HasPrefix(caught[1].msg, prefix)

(***************************************************************************)
(* C8 as stated: validation fails whenever the output directory (taken    *)
(* here as one that exists) is not writable, and it raises "No write       *)
(* permission for output directory" only when that directory is not        *)
(* writable.                                                               *)
(***************************************************************************)
C8_OutputDirectoryWritable ==
    JustValidated =>
        /\ (self.output \in dirs /\ self.output \notin WritableDirs)
                => validation = "failed"
        /\ CaughtMessage("No write permission for output directory")
                => ~(self.output \in dirs /\ self.output \in WritableDirs)

(***************************************************************************)
(* C9 as stated: when the source path of an entry of data_files or         *)
(* binary_files does not exist, validation fails and the tool is not       *)
(* invoked.                                                                *)
(***************************************************************************)
Range(seq) == {seq[i] : i \in 1..Len(seq)}

SourceMissing(item) == ~Exists(fsNow, Resolve(SplitFirst(item, ";")))

C9_DataAndBinarySourcesExist ==
    JustValidated /\ (\E item \in Range(self.data_files) \cup Range(self.binary_files) :
                            SourceMissing(item))
        => validation = "failed" /\ toolRuns = 0

(***************************************************************************)
(* C10 as stated: when the name holds one of < > : " / \ | ? * build()     *)
(* raises CrafterError before the tool is invoked, and the check of the    *)
(* name raises for no other name.                                          *)
(***************************************************************************)
InvalidNameChars == {"<", ">", ":", "\"", "/", "\\", "|", "?", "*"}

NameHasInvalidChar == \E c \in InvalidNameChars : Contains(self.name, c)

C10_InvalidNameRejected ==
    /\ (validation # "none" /\ NameHasInvalidChar) =>
        /\ pc = "build_raised"
        /\ toolRuns = 0
        /\ raised[1].type = "CrafterError"
    /\ CaughtMessage("Executable name contains invalid characters") => NameHasInvalidChar

(***************************************************************************)
(* C11                                                                     *)
(***************************************************************************)
\* C11: as long as _validate_inputs has not passed, and so after it failed,
\* nothing build() is there to do has been done, whatever clean_build and
\* force_replace are: no file or directory was removed or created (temporary
\* files, caches, the output directory, the old executable, the work and spec
\* directories) and the tool was not invoked and got no command
C11_FailedValidationChangesNothing ==
    [][(entry = "library" /\ validation' # "passed")
        => /\ files' = files
           /\ dirs' = dirs
           /\ toolRuns' = 0
           /\ toolCmd' = <<>>]_vars

\* validation failed for a call with clean_build and force_replace set, while
\* there were temporary files to clean and an old executable to remove
C11_Witness ==
    /\ entry = "library"
    /\ pc = "build_raised"
    /\ validation = "failed"
    /\ self.clean_build
    /\ self.force_replace
    /\ ExePath(self) \in files
    /\ WithSuffix(self.script, ".spec") \in files
    /\ Join(PathParent(self.script), "build") \in dirs
    /\ Join(Home, ".pyinstaller") \in dirs

(***************************************************************************)
(* C12                                                                     *)
(***************************************************************************)
\* C12: an executable <output>/<name>.exe that is there when build() gets to
\* invoke the tool's preparation is gone when the tool is invoked iff
\* force_replace is set; and with force_replace false no step of build()
\* itself (any step but the tool's run) removes an existing executable
C12_ForceReplaceDecidesDeletion ==
    [][(entry = "library" /\ crafter # <<>> /\ ExePath(self) \in files)
        => /\ (pc = "validated" /\ pc' = "ready")
                => ((ExePath(self) \notin files') <=> self.force_replace)
           /\ (~self.force_replace /\ pc # "ready")
                => ExePath(self) \in files']_vars

(***************************************************************************)
(* C13                                                                     *)
(***************************************************************************)
\* the options of the tool's command line that take the next argument as
\* their value, as build_exe writes them
GuiValueOptions == ListOptions \cup {"--distpath", "--icon", "--name"}

GuiSwitches == {"--onefile", "--noconsole", "--uac-admin", "--clean", "--noconfirm",
                "--optimize=2"}

\* the arguments m read from the left: <<option, value>> and <<switch>> entries
RECURSIVE GuiOptions(_)
GuiOptions(m) ==
    IF m = <<>> THEN <<>>
    ELSE IF m[1] \in GuiValueOptions /\ Len(m) >= 2
    THEN <<<<m[1], m[2]>>>> \o GuiOptions(SubSeq(m, 3, Len(m)))
    ELSE <<<<m[1]>>>> \o GuiOptions(Tail(m))

\* the values given to option o, in order
ValuesOf(opts, o) ==
    LET sel == SelectSeq(opts, LAMBDA e : e[1] = o)
    IN [k \in 1..Len(sel) |-> sel[k][2]]

\* the positions of opts that hold an option of the set os
PositionsOf(opts, os) == {k \in 1..Len(opts) : opts[k][1] \in os}

\* C13: the command a build thread runs begins with pyinstaller and ends with
\* the script path; between them each of --onefile, --noconsole, --uac-admin,
\* --clean, --noconfirm, --optimize=2 stands once iff its checkbox is set,
\* each of --distpath, --icon, --name stands once with the field's value iff
\* the field is not empty, each list option stands once per parsed item of
\* its field with the items as values in order (data and binary files with
\* ";." appended), the switches come first, then the three fields, then the
\* lists in the order of the form, and nothing else stands there
C13_GuiCommand ==
    \A t \in 1..Len(threads) :
        LET cmd == threads[t].cmd
            opts == GuiOptions(SubSeq(cmd, 2, Len(cmd) - 1))
            Count(o) == Len(SelectSeq(opts, LAMBDA e : e[1] = o))
            Once(b) == IF b THEN 1 ELSE 0
            Field(o, v) == ValuesOf(opts, o) = IF v # "" THEN <<v>> ELSE <<>>
            Before(a, b) == \A i \in PositionsOf(opts, a), j \in PositionsOf(opts, b) : i < j
        IN /\ Len(cmd) >= 2
           /\ cmd[1] = "pyinstaller"
           /\ cmd[Len(cmd)] = form.script_var
           /\ \A k \in 1..Len(opts) :
                /\ opts[k][1] \in GuiValueOptions \cup GuiSwitches
                /\ Len(opts[k]) = IF opts[k][1] \in GuiValueOptions THEN 2 ELSE 1
           /\ Count("--onefile") = Once(form.one_file_var)
           /\ Count("--noconsole") = Once(form.no_console_var)
           /\ Count("--uac-admin") = Once(form.admin_var)
           /\ Count("--clean") = Once(form.clean_build_var)
           /\ Count("--noconfirm") = Once(form.force_replace_var)
           /\ Count("--optimize=2") = Once(form.optimize_var)
           /\ Field("--distpath", form.output_var)
           /\ Field("--icon", form.icon_var)
           /\ Field("--name", form.name_var)
           /\ ValuesOf(opts, "--hidden-import")
                = parse_comma_separated(form.hidden_imports_var)
           /\ ValuesOf(opts, "--exclude-module")
                = parse_comma_separated(form.excluded_modules_var)
           /\ LET items == parse_comma_separated(form.data_files_var)
              IN ValuesOf(opts, "--add-data")
                    = [k \in 1..Len(items) |-> items[k] \o ";."]
           /\ LET items == parse_comma_separated(form.binary_files_var)
              IN ValuesOf(opts, "--add-binary")
                    = [k \in 1..Len(items) |-> items[k] \o ";."]
           /\ ValuesOf(opts, "--paths") = parse_comma_separated(form.extra_paths_var)
           /\ Before(GuiSwitches, GuiValueOptions)
           /\ Before({"--distpath", "--icon", "--name"}, ListOptions)
           /\ Before({"--hidden-import"}, {"--exclude-module"})
           /\ Before({"--exclude-module"}, {"--add-data"})
           /\ Before({"--add-data"}, {"--add-binary"})
           /\ Before({"--add-binary"}, {"--paths"})

\* a build was started from a form with some boxes ticked and others not, a
\* name that reads like a switch, and two data files
C13_Witness ==
    /\ Len(threads) = 1
    /\ form.clean_build_var /\ ~form.one_file_var /\ form.optimize_var
    /\ form.name_var = "--onefile"
    /\ form.icon_var # ""
    /\ parse_comma_separated(form.data_files_var) = <<"a", "b">>
    /\ threads[1].cmd[Len(threads[1].cmd)] = "/w/app.py"

(***************************************************************************)
(* C14                                                                     *)
(***************************************************************************)
\* the build threads that have not returned from run_build
AliveThreads == {i \in 1..Len(threads) : threads[i].pc # "done"}

\* the build threads whose tool is running
RunningTools == {i \in 1..Len(threads) : threads[i].pc = "subprocess"}

\* C14: whatever the user does on the main window and its dialogs, at most
\* one build thread is alive and at most one tool subprocess is running
C14_AtMostOneBuild ==
    /\ Cardinality(AliveThreads) <= 1
    /\ Cardinality(RunningTools) <= 1

====
